---- MODULE Spec2Model ----
(***************************************************************************)
(* Subtitle pipeline of gatorbonita/translator: the word grouper           *)
(* (_create_segments_from_words, Google and Whisper variants), the merge   *)
(* pass (_merge_short_segments), the SRT writer (generate_srt,             *)
(* _format_timestamp) and the batched translation (translate_segments,     *)
(* _translate_batch_with_retry).                                           *)
(*                                                                         *)
(* Representation.  A text is a sequence of characters; a character is a   *)
(* short string naming it ("a" an ordinary character, "sp" a blank,        *)
(* "maru" "bang" "hatena" "ten" the four marks of sentence_endings, "nl"   *)
(* a newline).  Times are whole milliseconds; every input time is a        *)
(* multiple of 250 ms, which binary floating point represents exactly, so  *)
(* the float arithmetic of the source is exact on them.  confidence is in  *)
(* hundredths.                                                             *)
(***************************************************************************)
EXTENDS Integers, Sequences, FiniteSets, TLC

VARIABLES
    \* ---- word grouper (_create_segments_from_words)
    variant,        \* "google" (src/src) or "whisper" (src/whispermode/src)
    max_duration,   \* parameter max_duration, ms
    max_chars,      \* parameter max_chars
    words,          \* the tokens of word_info_list / words consumed so far
    segments,       \* local list segments (the value returned)
    current_words,  \* buffered token texts
    current_start,  \* None or <<ms>>
    current_end,    \* None or <<ms>>
    gpc,            \* "loop" while iterating, "done" once returned
    \* ---- SubtitleGenerator object
    min_duration,   \* self.min_duration, ms
    self_max_chars, \* self.max_chars
    \* ---- merge pass (SubtitleGenerator._merge_short_segments)
    msegments,      \* the cues of the argument segments consumed so far
    merged,         \* local list merged (the value returned)
    current,        \* None or <<the accumulator cue>>
    mpc,            \* "loop" while iterating, "done" once returned
    \* ---- SRT writer (SubtitleGenerator.generate_srt)
    srt_segments,   \* the argument segments
    merged_segments,\* local merged_segments
    srt_i,          \* number of loop iterations done (enumerate index)
    file,           \* None, or <<the characters of the file at output_path>>
    spc,            \* "merge", "open", "write", "done"
    \* ---- translation (Translator.translate_segments)
    tsegments,      \* the argument segments
    batch_size,     \* parameter batch_size
    max_retries,    \* parameter max_retries of _translate_batch_with_retry
    translated_segments, \* local translated_segments
    i,              \* loop variable i (start of the current batch)
    attempt,        \* loop variable attempt
    calls,          \* the client.translate calls made so far, in order
    sleeps,         \* the time.sleep delays so far, in order, seconds
    outcome,        \* kind "none", "returned" (value) or "raised" (exc)
    tpc,            \* "start", "batch", "done"
    \* ---- timestamp formatting (SubtitleGenerator._format_timestamp)
    seconds,        \* the argument seconds, as <<whole milliseconds>>
    timestamp,      \* None, or <<the string returned>>
    \* ---- the pipeline (main)
    stage,          \* the step of main that runs next, "done" after return
    ran,            \* the steps of main entered so far, in order
    japanese_segments, \* local japanese_segments
    chinese_segments,  \* local chinese_segments
    caught,         \* None, or <<the step whose exception main caught>>
    exit_code,      \* None, or <<the value main returned>>
    \* ---- objects: a stage called on a list of cue objects
    heap,           \* the TranscriptSegment objects, by reference 1, 2, ...
    segments_arg,   \* the argument: a list of references
    own_merged,     \* the list being built (merged / translated_segments)
    own_current,    \* local current of the merge pass: None or <<reference>>
    own_k,          \* number of loop iterations done
    own_result,     \* None, or <<the list returned>>
    opc,            \* "merge", "translate", "returned"
    \* ---- recognition (Google SpeechRecognizer.transcribe_audio)
    file_size,      \* os.path.getsize(audio_path), bytes
    gcs_bucket_name,\* self.gcs_bucket_name: None or <<name>>
    audio_duration, \* local duration: extractor.get_audio_duration(audio_path), ms
    gcs_uri,        \* local gcs_uri: None or <<uri>>
    blobs,          \* the objects in the bucket
    api_log,        \* the calls on Cloud Storage and Speech so far, in order
    transcribed,    \* kind "none", "returned" or "raised" (exc)
    apc             \* "start", "recognize", "result", "cleanup", "done"

gvars == <<variant, max_duration, max_chars, words, segments,
           current_words, current_start, current_end, gpc>>

ovars == <<min_duration, self_max_chars>>

mvars == <<msegments, merged, current, mpc>>

svars == <<srt_segments, merged_segments, srt_i, file, spc>>

tvars == <<tsegments, batch_size, max_retries, translated_segments, i, attempt,
           calls, sleeps, outcome, tpc>>

fvars == <<seconds, timestamp>>

pvars == <<stage, ran, japanese_segments, chinese_segments, caught, exit_code>>

hvars == <<heap, segments_arg, own_merged, own_current, own_k, own_result, opc>>

avars == <<file_size, gcs_bucket_name, audio_duration, gcs_uri, blobs, api_log,
           transcribed, apc>>

vars == <<gvars, ovars, mvars, svars, tvars, fvars, pvars, hvars, avars>>

\* Python None; a value v that may be None is held as <<v>>
None == <<>>

----------------------------------------------------------------------------
\* Bounds of the model

\* longest token list given to the word grouper
MaxWords == 3
\* longest cue list given to the merge pass
MaxCues == 4
\* longest cue list given to generate_srt
MaxSrtCues == 2
\* longest cue list given to translate_segments
MaxSegments == 5
\* _format_timestamp is given every whole millisecond up to this one
MaxMillis == 1100
\* longest cue list the recognizer returns to main
MaxDraft == 3
\* longest list of cue objects a stage is called on
MaxOwnCues == 3

----------------------------------------------------------------------------
\* Components at rest: each specification below runs one component and
\* leaves the others in these states.

GroupIdle ==
    /\ variant = "none"
    /\ max_duration = 0
    /\ max_chars = 0
    /\ words = <<>>
    /\ segments = <<>>
    /\ current_words = <<>>
    /\ current_start = None
    /\ current_end = None
    /\ gpc = "idle"

ObjectIdle ==
    /\ min_duration = 0
    /\ self_max_chars = 0

MergeIdle ==
    /\ msegments = <<>>
    /\ merged = <<>>
    /\ current = None
    /\ mpc = "idle"

SrtIdle ==
    /\ srt_segments = <<>>
    /\ merged_segments = <<>>
    /\ srt_i = 0
    /\ file = None
    /\ spc = "idle"

TranslateIdle ==
    /\ tsegments = <<>>
    /\ batch_size = 0
    /\ max_retries = 0
    /\ translated_segments = <<>>
    /\ i = 0
    /\ attempt = 0
    /\ calls = <<>>
    /\ sleeps = <<>>
    /\ outcome = [kind |-> "none", value |-> <<>>, exc |-> "none"]
    /\ tpc = "idle"

FormatIdle ==
    /\ seconds = None
    /\ timestamp = None

OwnIdle ==
    /\ heap = <<>>
    /\ segments_arg = <<>>
    /\ own_merged = <<>>
    /\ own_current = None
    /\ own_k = 0
    /\ own_result = None
    /\ opc = "idle"

TranscribeIdle ==
    /\ file_size = 0
    /\ gcs_bucket_name = None
    /\ audio_duration = 0
    /\ gcs_uri = None
    /\ blobs = {}
    /\ api_log = <<>>
    /\ transcribed = [kind |-> "none", exc |-> "none"]
    /\ apc = "idle"

MainIdle ==
    /\ stage = "idle"
    /\ ran = <<>>
    /\ japanese_segments = <<>>
    /\ chinese_segments = <<>>
    /\ caught = None
    /\ exit_code = None

----------------------------------------------------------------------------
\* Strings

\* ''.join(list of texts)
RECURSIVE Join(_)
Join(ws) == IF ws = <<>> THEN <<>> ELSE Head(ws) \o Join(Tail(ws))

IsSpace(c) == c = "sp"

RECURSIVE LStrip(_)
LStrip(s) == IF s /= <<>> /\ IsSpace(Head(s)) THEN LStrip(Tail(s)) ELSE s

RECURSIVE RStrip(_)
RStrip(s) ==
    IF s /= <<>> /\ IsSpace(s[Len(s)]) THEN RStrip(SubSeq(s, 1, Len(s) - 1)) ELSE s

\* str.strip()
Strip(s) == RStrip(LStrip(s))

\* str.endswith(c) for a one-character c
EndsWith(s, c) == s /= <<>> /\ s[Len(s)] = c

----------------------------------------------------------------------------
\* Word grouper

sentence_endings == {"maru", "bang", "hatena", "ten"}

DefaultMaxDuration == 5000
DefaultMaxChars == 80
\* "len(text) > 10 or duration > 1.0"
ReasonableLength == 10
ReasonableDuration == 1000

\* (max_duration, max_chars): the defaults every caller uses, and a small
\* setting under which the length rule is within reach of MaxWords tokens
GroupParams == {<<DefaultMaxDuration, DefaultMaxChars>>, <<2000, 10>>}

A5 == <<"a", "a", "a", "a", "a">>
WordTexts == {<<>>, <<"sp">>, <<"maru">>, A5, <<"a", "a", "a", "a", "hatena">>,
              <<"bang", "ten">>}

\* <<gap after the previous token's end, length of the token>>, ms
WordTimings == {<<0, 250>>, <<0, 1000>>, <<250, 2500>>}

\* the code checks nothing about the times it is given: a token that ends
\* before it starts, after which the next token starts before it does
MalformedTiming == <<250, -250>>
MalformedWordTexts == {A5, <<"maru">>}

\* A token as the recognizer delivers it: Google's WordInfo carries Duration
\* objects (seconds, microseconds), Whisper's Word carries float seconds.
MkDuration(ms) == [seconds |-> ms \div 1000, microseconds |-> (ms % 1000) * 1000]

MkWord(v, text, s, e) ==
    IF v = "google"
    THEN [word |-> text, start_time |-> MkDuration(s), end_time |-> MkDuration(e)]
    ELSE [word |-> text, start |-> s, end |-> e]

\* start_sec / end_sec of the loop body
StartSec(v, w) ==
    IF v = "google"
    THEN w.start_time.seconds * 1000 + w.start_time.microseconds \div 1000
    ELSE w.start

EndSec(v, w) ==
    IF v = "google"
    THEN w.end_time.seconds * 1000 + w.end_time.microseconds \div 1000
    ELSE w.end

\* text = ''.join(current_words)   (Whisper: .strip())
BufferText(v, cw) == IF v = "whisper" THEN Strip(Join(cw)) ELSE Join(cw)

\* the chain with "len(text) >= 10" written for "len(text) > 10"
ShouldFinalizeOffByOne(text, duration, maxd, maxc) ==
    IF duration >= maxd THEN TRUE
    ELSE IF Len(text) >= maxc THEN TRUE
    ELSE IF \E punct \in {"maru", "bang", "hatena", "ten"} : EndsWith(text, punct)
         THEN Len(text) >= 10 \/ duration > 1000
         ELSE FALSE

\* a chain that cuts at every sentence ending, however short the buffer
ShouldFinalizeAnyPunctuation(text, duration, maxd, maxc) ==
    IF duration >= maxd THEN TRUE
    ELSE IF Len(text) >= maxc THEN TRUE
    ELSE \E punct \in {"maru", "bang", "hatena", "ten"} : EndsWith(text, punct)

\* the if / elif chain that sets should_finalize
ShouldFinalize(text, duration, maxd, maxc) ==
    IF duration >= maxd THEN TRUE
    ELSE IF Len(text) >= maxc THEN TRUE
    ELSE IF \E punct \in sentence_endings : EndsWith(text, punct)
         THEN Len(text) > ReasonableLength \/ duration > ReasonableDuration
         ELSE FALSE

\* a constructor call with the two times in the wrong order
TranscriptSegmentSwapped(text, s, e, conf) ==
    [text |-> text, start_time |-> e, end_time |-> s, confidence |-> conf]

TranscriptSegment(text, s, e, conf) ==
    [text |-> text, start_time |-> s, end_time |-> e, confidence |-> conf]

LastEnd == IF words = <<>> THEN 0 ELSE EndSec(variant, words[Len(words)])

GroupInit ==
    /\ ObjectIdle /\ MergeIdle /\ SrtIdle /\ TranslateIdle /\ FormatIdle /\ MainIdle
    /\ OwnIdle /\ TranscribeIdle
    /\ variant \in {"google", "whisper"}
    /\ \E p \in GroupParams : max_duration = p[1] /\ max_chars = p[2]
    /\ words = <<>>
    /\ segments = <<>>
    /\ current_words = <<>>
    /\ current_start = None
    /\ current_end = None
    /\ gpc = "loop"

\* one iteration of "for word in words"
GroupWord(w) ==
    /\ gpc = "loop"
    /\ Len(words) < MaxWords
    /\ words' = Append(words, w)
    /\ LET start == IF current_start = None THEN StartSec(variant, w)
                    ELSE current_start[1]
           cw == Append(current_words, w.word)
           end == EndSec(variant, w)
           duration == end - start
           text == BufferText(variant, cw)
       IN IF ShouldFinalize(text, duration, max_duration, max_chars)
          THEN /\ segments' = Append(segments, TranscriptSegment(text, start, end, 100))
               /\ current_words' = <<>>
               /\ current_start' = None
               /\ current_end' = None
          ELSE /\ segments' = segments
               /\ current_words' = cw
               /\ current_start' = <<start>>
               /\ current_end' = <<end>>
    /\ UNCHANGED <<variant, max_duration, max_chars, gpc>>
    /\ UNCHANGED <<ovars, mvars, svars, tvars, fvars, pvars, hvars, avars>>

\* a return that forgets the words still buffered
GroupReturnNoFlush ==
    /\ gpc = "loop"
    /\ gpc' = "done"
    /\ UNCHANGED <<variant, max_duration, max_chars, words, segments,
                   current_words, current_start, current_end>>
    /\ UNCHANGED <<ovars, mvars, svars, tvars, fvars, pvars, hvars, avars>>

\* the code after the loop: flush of the remaining words, return
GroupReturn ==
    /\ gpc = "loop"
    /\ gpc' = "done"
    /\ LET text == BufferText(variant, current_words)
       IN segments' =
            IF current_words /= <<>> /\ (variant = "whisper" => text /= <<>>)
            THEN Append(segments,
                        TranscriptSegment(text, current_start[1], current_end[1], 100))
            ELSE segments
    /\ UNCHANGED <<variant, max_duration, max_chars, words,
                   current_words, current_start, current_end>>
    /\ UNCHANGED <<ovars, mvars, svars, tvars, fvars, pvars, hvars, avars>>

GroupStep ==
    \E t \in WordTexts, tm \in WordTimings :
        GroupWord(MkWord(variant, t, LastEnd + tm[1], LastEnd + tm[1] + tm[2]))

\* the loop is given a token with MalformedTiming
GroupStepMalformed ==
    \E t \in MalformedWordTexts :
        GroupWord(MkWord(variant, t, LastEnd + MalformedTiming[1],
                         LastEnd + MalformedTiming[1] + MalformedTiming[2]))

GroupNext == GroupStep \/ GroupStepMalformed \/ GroupReturn

SpecGroup == GroupInit /\ [][GroupNext]_vars

----------------------------------------------------------------------------
\* Word grouper: properties

\* texts of a list of tokens / of a list of cues
TextsOfWords(ws) == [k \in 1..Len(ws) |-> ws[k].word]
TextsOfSegments(segs) == [k \in 1..Len(segs) |-> segs[k].text]

\* s without its blanks
RECURSIVE NoSpace(_)
NoSpace(s) ==
    IF s = <<>> THEN <<>>
    ELSE IF IsSpace(Head(s)) THEN NoSpace(Tail(s))
    ELSE <<Head(s)>> \o NoSpace(Tail(s))

\* C1: in a loop iteration, with text the buffered text after the append and
\* duration the end of the appended token minus the start of the first
\* buffered token, a cue (text, that start, that end) is appended and the
\* buffer cleared exactly when duration >= max_duration, or
\* len(text) >= max_chars, or text ends with a terminal mark and
\* (len(text) > 10 or duration > 1.0); otherwise the token stays buffered and
\* no cue is appended.
C1_FinalizeExactly ==
    [][(gpc = "loop" /\ Len(words') = Len(words) + 1) =>
        LET n == Len(words')
            first == words'[n - Len(current_words)]
            start == StartSec(variant, first)
            end == EndSec(variant, words'[n])
            duration == end - start
            joined == Join(TextsOfWords(SubSeq(words', n - Len(current_words), n)))
            text == IF variant = "whisper" THEN Strip(joined) ELSE joined
            rule == \/ duration >= max_duration
                    \/ Len(text) >= max_chars
                    \/ /\ text /= <<>>
                       /\ text[Len(text)] \in {"maru", "bang", "hatena", "ten"}
                       /\ (Len(text) > 10 \/ duration > 1000)
        IN IF rule
           THEN /\ segments' = Append(segments,
                                      [text |-> text, start_time |-> start,
                                       end_time |-> end, confidence |-> 100])
                /\ current_words' = <<>>
           ELSE /\ segments' = segments
                /\ current_words' = Append(current_words, words'[n].word)
                /\ current_start' = <<start>>
                /\ current_end' = <<end>>
    ]_vars

\* C1 witness: a cue was finalized by the terminal-mark rule alone (shorter
\* than max_duration and max_chars) and a later token is held in the buffer.
C1_Witness ==
    /\ gpc = "loop"
    /\ current_words /= <<>>
    /\ \E k \in 1..Len(segments) :
        /\ segments[k].end_time - segments[k].start_time < max_duration
        /\ Len(segments[k].text) < max_chars
        /\ segments[k].text[Len(segments[k].text)] \in sentence_endings

\* C2 (as stated): once returned, the cue texts concatenated in list order are
\* exactly the token texts concatenated in input order.
C2_ExactConcatenation ==
    gpc = "done" => Join(TextsOfSegments(segments)) = Join(TextsOfWords(words))

\* C2 (amended): the Google grouper returns exactly the concatenation of the
\* token texts; the Whisper grouper returns it up to blanks (strip() of each
\* cue text, and no cue for a final buffer that strips to nothing): every
\* non-blank character is kept once and in order.
C2_NoInputDropped ==
    gpc = "done" =>
        /\ variant = "google" =>
             Join(TextsOfSegments(segments)) = Join(TextsOfWords(words))
        /\ variant = "whisper" =>
             NoSpace(Join(TextsOfSegments(segments))) = NoSpace(Join(TextsOfWords(words)))

\* C2 witness: a return whose last cue is the flush of tokens that met no
\* finalize rule, after an earlier cue.
C2_Witness ==
    /\ gpc = "done"
    /\ Len(segments) >= 2
    /\ current_words /= <<>>
    /\ Len(words) = MaxWords

----------------------------------------------------------------------------
\* Merge pass

DefaultMinDuration == 1000
DefaultSelfMaxChars == 80
\* "segment.start_time - current.end_time < 1.0"
CloseTiming == 1000

\* (min_duration, max_chars) of the constructor: the defaults, the
\* min_duration of test_merge_short_segments, and a max_chars within reach of
\* the texts below
MergeParams == {<<DefaultMinDuration, DefaultSelfMaxChars>>, <<2000, 5>>,
                <<DefaultMinDuration, 5>>}

\* <<text, confidence>> of an input cue
CueTexts == {<<(<<"a", "b", "c">>), 100>>, <<(<<"d">>), 50>>}

\* <<gap after the previous cue's end, length of the cue>>, ms
CueTimings == {<<0, 500>>, <<0, 1000>>, <<1000, 500>>, <<1000, 1000>>}

\* should_merge with "<= 1.0" written for "< 1.0"
ShouldMergeGapInclusive(cur, segment, mind, maxc) ==
    LET duration == cur.end_time - cur.start_time
        combined_text == cur.text \o <<"sp">> \o segment.text
    IN \/ duration < mind
       \/ /\ Len(combined_text) <= maxc
          /\ segment.start_time - cur.end_time <= 1000

\* a predicate without "duration < self.min_duration"
ShouldMergeCloseOnly(cur, segment, mind, maxc) ==
    LET combined_text == cur.text \o <<"sp">> \o segment.text
    IN /\ Len(combined_text) <= maxc
       /\ segment.start_time - cur.end_time < CloseTiming

\* a predicate that asks whether the incoming cue, not the accumulator, is
\* too short
ShouldMergeNextShort(cur, segment, mind, maxc) ==
    LET duration == segment.end_time - segment.start_time
        combined_text == cur.text \o <<"sp">> \o segment.text
    IN \/ duration < mind
       \/ /\ Len(combined_text) <= maxc
          /\ segment.start_time - cur.end_time < CloseTiming

\* should_merge
ShouldMerge(cur, segment, mind, maxc) ==
    LET duration == cur.end_time - cur.start_time
        combined_text == cur.text \o <<"sp">> \o segment.text
    IN \/ duration < mind
       \/ /\ Len(combined_text) <= maxc
          /\ segment.start_time - cur.end_time < CloseTiming

\* an iteration whose copies of the input cues leave confidence at the
\* dataclass default
MergeOneDefaultConfidence(st, segment, mind, maxc) ==
    IF st.current = None
    THEN [merged |-> st.merged,
          current |-> <<TranscriptSegment(segment.text, segment.start_time,
                                          segment.end_time, 100)>>]
    ELSE LET cur == st.current[1]
         IN IF ShouldMerge(cur, segment, mind, maxc)
            THEN [merged |-> st.merged,
                  current |-> <<[cur EXCEPT
                                   !.text = cur.text \o <<"sp">> \o segment.text,
                                   !.end_time = segment.end_time]>>]
            ELSE [merged |-> Append(st.merged, cur),
                  current |-> <<TranscriptSegment(segment.text, segment.start_time,
                                                  segment.end_time, 100)>>]

\* one iteration of "for segment in segments" on the locals
\* st = [merged, current]
MergeOne(st, segment, mind, maxc) ==
    IF st.current = None
    THEN [merged |-> st.merged,
          current |-> <<TranscriptSegment(segment.text, segment.start_time,
                                          segment.end_time, segment.confidence)>>]
    ELSE LET cur == st.current[1]
         IN IF ShouldMerge(cur, segment, mind, maxc)
            THEN [merged |-> st.merged,
                  current |-> <<[cur EXCEPT
                                   !.text = cur.text \o <<"sp">> \o segment.text,
                                   !.end_time = segment.end_time]>>]
            ELSE [merged |-> Append(st.merged, cur),
                  current |-> <<TranscriptSegment(segment.text, segment.start_time,
                                                  segment.end_time, segment.confidence)>>]

\* a return that forgets the last accumulator
MergeFinishForgetsLast(st) == st.merged

\* "if current is not None: merged.append(current)"
MergeFinish(st) ==
    IF st.current /= None THEN Append(st.merged, st.current[1]) ELSE st.merged

RECURSIVE MergeLoop(_, _, _, _)
MergeLoop(st, segs, mind, maxc) ==
    IF segs = <<>> THEN st
    ELSE MergeLoop(MergeOne(st, Head(segs), mind, maxc), Tail(segs), mind, maxc)

\* _merge_short_segments(segments) as a function of its argument
MergeShortSegments(segs, mind, maxc) ==
    IF segs = <<>> THEN <<>>
    ELSE MergeFinish(MergeLoop([merged |-> <<>>, current |-> None], segs, mind, maxc))

MergeInit ==
    /\ GroupIdle /\ SrtIdle /\ TranslateIdle /\ FormatIdle /\ MainIdle
    /\ OwnIdle /\ TranscribeIdle
    /\ \E p \in MergeParams : min_duration = p[1] /\ self_max_chars = p[2]
    /\ msegments = <<>>
    /\ merged = <<>>
    /\ current = None
    /\ mpc = "loop"

MLastEnd == IF msegments = <<>> THEN 0 ELSE msegments[Len(msegments)].end_time

\* one iteration of "for segment in segments"
MergeSegment(segment) ==
    /\ mpc = "loop"
    /\ Len(msegments) < MaxCues
    /\ msegments' = Append(msegments, segment)
    /\ LET st == MergeOne([merged |-> merged, current |-> current], segment,
                          min_duration, self_max_chars)
       IN merged' = st.merged /\ current' = st.current
    /\ UNCHANGED <<min_duration, self_max_chars, mpc>>
    /\ UNCHANGED <<gvars, svars, tvars, fvars, pvars, hvars, avars>>

\* the code after the loop: the last accumulator is appended, return
MergeReturn ==
    /\ mpc = "loop"
    /\ mpc' = "done"
    /\ merged' = MergeFinish([merged |-> merged, current |-> current])
    /\ UNCHANGED <<min_duration, self_max_chars, msegments, current>>
    /\ UNCHANGED <<gvars, svars, tvars, fvars, pvars, hvars, avars>>

MergeStep ==
    \E t \in CueTexts, tm \in CueTimings :
        MergeSegment(TranscriptSegment(t[1], MLastEnd + tm[1],
                                       MLastEnd + tm[1] + tm[2], t[2]))

\* the loop is given a cue with MalformedTiming: it ends before it starts,
\* and a cue that follows it with no gap starts before it does
MergeStepMalformed ==
    MergeSegment(TranscriptSegment(<<"d">>, MLastEnd + MalformedTiming[1],
                                   MLastEnd + MalformedTiming[1] + MalformedTiming[2],
                                   50))

MergeNext == MergeStep \/ MergeStepMalformed \/ MergeReturn

SpecMerge == MergeInit /\ [][MergeNext]_vars

----------------------------------------------------------------------------
\* Merge pass: properties

\* texts joined by single blanks
RECURSIVE JoinSp(_)
JoinSp(ts) ==
    IF ts = <<>> THEN <<>>
    ELSE IF Len(ts) = 1 THEN ts[1]
    ELSE ts[1] \o <<"sp">> \o JoinSp(Tail(ts))

\* out is ins cut into contiguous runs at the positions B (the last index of
\* each run), run for run: texts joined by blanks, start of the first cue,
\* end of the last cue
IsRunsOf(out, ins, B) ==
    /\ Cardinality(B) = Len(out)
    /\ (ins /= <<>> => Len(ins) \in B)
    /\ \A b \in B :
        LET k == Cardinality({x \in B : x <= b})
            lo == IF k = 1 THEN 1
                  ELSE 1 + CHOOSE x \in B : x < b /\ \A y \in B : y < b => y <= x
        IN /\ out[k].text = JoinSp(TextsOfSegments(SubSeq(ins, lo, b)))
           /\ out[k].start_time = ins[lo].start_time
           /\ out[k].end_time = ins[b].end_time

C4_ContiguousRuns ==
    mpc = "done" =>
        /\ Len(merged) <= Len(msegments)
        /\ \E B \in SUBSET (1..Len(msegments)) : IsRunsOf(merged, msegments, B)

\* C4 witness: a return with several cues, one of them a merge of inputs.
C4_Witness ==
    /\ mpc = "done"
    /\ Len(merged) >= 2
    /\ Len(merged) < Len(msegments)

\* C5: if every input text has at most max_chars characters, so has every
\* returned text.
C5_RespectsMaxChars ==
    (mpc = "done" /\ \A k \in 1..Len(msegments) : Len(msegments[k].text) <= self_max_chars)
        => \A k \in 1..Len(merged) : Len(merged[k].text) <= self_max_chars

----------------------------------------------------------------------------
\* Properties of the cues: times, texts, rules

\* the tokens given to the grouper each end no earlier than they start and
\* come in order of start time
TokensWellFormed ==
    \A k \in 1..Len(words) :
        /\ StartSec(variant, words[k]) <= EndSec(variant, words[k])
        /\ (k > 1 => StartSec(variant, words[k - 1]) <= StartSec(variant, words[k]))

\* the same of a list of cues
CuesWellFormed(cs) ==
    \A k \in 1..Len(cs) :
        /\ cs[k].start_time <= cs[k].end_time
        /\ (k > 1 => cs[k - 1].start_time <= cs[k].start_time)

NoNegativeCue(cs) == \A k \in 1..Len(cs) : cs[k].start_time <= cs[k].end_time

\* C15: the grouper and the merge pass return only for well-formed input (a
\* token or cue that ends before it starts, or a list out of start order, is
\* answered with an error), and no cue they return ends before it starts.
C15_MalformedRejected ==
    /\ (gpc = "done" => (TokensWellFormed /\ NoNegativeCue(segments)))
    /\ (mpc = "done" => (CuesWellFormed(msegments) /\ NoNegativeCue(merged)))

\* C16: no cue of the grouper has the empty text, whether it was cut by a
\* rule or flushed at the end.
C16_NonEmptyText ==
    \A k \in 1..Len(segments) : segments[k].text /= <<>>

\* C17: on well-formed tokens every cue the grouper returns has
\* start <= end, and on well-formed cues every cue the merge pass returns has
\* start <= end.
C17_WellFormedOutput ==
    /\ (gpc = "done" /\ TokensWellFormed) => NoNegativeCue(segments)
    /\ (mpc = "done" /\ CuesWellFormed(msegments)) => NoNegativeCue(merged)

\* C17 witness: a return on well-formed input with a cue made of several
\* tokens, or of several cues.
C17_Witness ==
    \/ /\ gpc = "done"
       /\ TokensWellFormed
       /\ Len(words) = 3
       /\ Len(segments) = 1
       /\ segments[1].start_time < segments[1].end_time
    \/ /\ mpc = "done"
       /\ CuesWellFormed(msegments)
       /\ Len(msegments) >= 3
       /\ Len(merged) < Len(msegments)

\* a cue meets one of the three rules, on its own text and duration
MeetsRule(c) ==
    LET d == c.end_time - c.start_time
    IN \/ d >= max_duration
       \/ Len(c.text) >= max_chars
       \/ /\ c.text /= <<>>
          /\ c.text[Len(c.text)] \in {"maru", "bang", "hatena", "ten"}
          /\ (Len(c.text) > 10 \/ d > 1000)

\* C18: every cue of the grouper but possibly the last one returned meets a
\* finalize rule: only the flush can emit a cue that meets none.
C18_NonLastMeetRule ==
    \A k \in 1..Len(segments) :
        (gpc = "done" => k < Len(segments)) => MeetsRule(segments[k])

\* C18 witness: a return whose last cue, the flush, meets no rule, after a
\* cue cut on a sentence ending.
C18_Witness ==
    /\ gpc = "done"
    /\ Len(segments) >= 2
    /\ ~MeetsRule(segments[Len(segments)])
    /\ segments[1].end_time - segments[1].start_time < max_duration
    /\ Len(segments[1].text) < max_chars

\* no cue of cs would be merged into the cue before it
NothingToMerge(cs) ==
    \A k \in 1..(Len(cs) - 1) :
        ~ \/ cs[k].end_time - cs[k].start_time < min_duration
          \/ /\ Len(cs[k].text) + 1 + Len(cs[k + 1].text) <= self_max_chars
             /\ cs[k + 1].start_time - cs[k].end_time < 1000

\* C19: when no two adjacent input cues are to be merged, the merge pass
\* returns the input, cue for cue, and so does a second pass over its result.
C19_IdentityWhenNothingToMerge ==
    (mpc = "done" /\ NothingToMerge(msegments))
        => /\ merged = msegments
           /\ MergeShortSegments(merged, min_duration, self_max_chars) = merged

\* C19 witness: a return on several cues none of which is merged, one of them
\* with a confidence other than the default.
C19_Witness ==
    /\ mpc = "done"
    /\ Len(msegments) >= 2
    /\ NothingToMerge(msegments)
    /\ \E k \in 1..Len(msegments) : msegments[k].confidence /= 100

----------------------------------------------------------------------------
\* SRT writer

Digit(d) == <<"0", "1", "2", "3", "4", "5", "6", "7", "8", "9">>[d + 1]

\* f"{n}" for n >= 0
RECURSIVE Str(_)
Str(n) == IF n < 10 THEN <<Digit(n)>> ELSE Str(n \div 10) \o <<Digit(n % 10)>>

RECURSIVE Zeros(_)
Zeros(k) == IF k <= 0 THEN <<>> ELSE <<"0">> \o Zeros(k - 1)

\* f"{n:0wd}" for n >= 0
Pad(n, w) == Zeros(w - Len(Str(n))) \o Str(n)

\* ---- "int((seconds % 1) * 1000)" in IEEE 754 binary64, for the float
\* seconds nearest to t / 1000 with t a whole number of milliseconds.
\* seconds = q * 2^(e-52) with q the integer nearest to t * 2^(52-e) / 1000;
\* seconds % 1 is exact; its product with 1000 is r - rem * 2^(e-52) when
\* seconds was rounded down by rem / 1000 of a unit, and is then rounded to
\* the nearest float, which is r only if the deficit is at most half the
\* spacing of the floats below r; int() truncates.

\* 2^k mod 1000
RECURSIVE PowMod(_)
PowMod(k) == IF k = 0 THEN 1 ELSE (2 * PowMod(k - 1)) % 1000

\* the binary exponent e of t / 1000: 2^e <= t / 1000 < 2^(e+1), for t > 0
RECURSIVE Exponent(_)
Exponent(t) ==
    IF t < 1000 THEN Exponent(2 * t) - 1
    ELSE IF t < 2000 THEN 0
    ELSE Exponent(t \div 2) + 1

RECURSIVE FloorLog2(_)
FloorLog2(r) == IF r < 2 THEN 0 ELSE FloorLog2(r \div 2) + 1

RECURSIVE IsPowerOfTwo(_)
IsPowerOfTwo(r) == r = 1 \/ (r > 1 /\ r % 2 = 0 /\ IsPowerOfTwo(r \div 2))

\* n <= 2^k, for n >= 1 and any integer k
RECURSIVE AtMostTwoTo(_, _)
AtMostTwoTo(n, k) ==
    IF k < 0 THEN FALSE
    ELSE IF n = 1 THEN TRUE
    ELSE IF k = 0 THEN FALSE
    ELSE AtMostTwoTo((n + 1) \div 2, k - 1)

Millisecs(t) ==
    LET r == t % 1000
    IN IF r = 0 THEN 0
       ELSE LET e == Exponent(t)
                rem == (r * PowMod(52 - e)) % 1000
                g == IF IsPowerOfTwo(r) THEN FloorLog2(r) - 1 ELSE FloorLog2(r)
            IN IF rem = 0 \/ rem > 500 THEN r
               ELSE IF AtMostTwoTo(rem, g - e - 1) THEN r
               ELSE r - 1

\* _format_timestamp(seconds) for seconds = t / 1000.  seconds // 3600,
\* seconds % 3600 // 60 and seconds % 60 are exact on floats (the float
\* nearest to t / 1000 is on the same side of every whole second as t / 1000).
FormatTimestamp(t) ==
    LET hours == t \div 3600000
        minutes == (t % 3600000) \div 60000
        secs == (t % 60000) \div 1000
        millisecs == Millisecs(t)
    IN Pad(hours, 2) \o <<":">> \o Pad(minutes, 2) \o <<":">> \o Pad(secs, 2)
       \o <<",">> \o Pad(millisecs, 3)

\* a loop iteration without its last write, the blank line
WriteBlockNoSeparator(f, n, segment) ==
    f \o Str(n) \o <<"nl">>
      \o FormatTimestamp(segment.start_time) \o <<"sp", "-", "-", ">", "sp">>
      \o FormatTimestamp(segment.end_time) \o <<"nl">>
      \o segment.text \o <<"nl">>

\* the four f.write calls of one loop iteration
WriteBlock(f, n, segment) ==
    f \o Str(n) \o <<"nl">>
      \o FormatTimestamp(segment.start_time) \o <<"sp", "-", "-", ">", "sp">>
      \o FormatTimestamp(segment.end_time) \o <<"nl">>
      \o segment.text \o <<"nl">>
      \o <<"nl">>

\* the cues of test_generate_srt_basic
FirstLine == TranscriptSegment(<<"dai", "ichi", "gyou", "ji", "maku">>, 1000, 4500, 100)
SecondLine == TranscriptSegment(<<"dai", "ni", "gyou", "ji", "maku">>, 5000, 8750, 100)

\* cues generate_srt is given
SrtCues == {FirstLine, SecondLine,
            TranscriptSegment(<<"d">>, 9750, 10250, 50),
            TranscriptSegment(<<"a", "b", "c">>, 3661500, 7322250, 100)}

SrtInputs == UNION {[1..n -> SrtCues] : n \in 0..MaxSrtCues}

SrtParams == {<<DefaultMinDuration, DefaultSelfMaxChars>>, <<DefaultMinDuration, 5>>}

SrtInit ==
    /\ GroupIdle /\ MergeIdle /\ TranslateIdle /\ FormatIdle /\ MainIdle
    /\ OwnIdle /\ TranscribeIdle
    /\ \E p \in SrtParams : min_duration = p[1] /\ self_max_chars = p[2]
    /\ srt_segments \in SrtInputs
    /\ merged_segments = <<>>
    /\ srt_i = 0
    /\ file \in {None, <<(<<"o", "l", "d", "nl">>)>>}
    /\ spc = "merge"

\* merged_segments = self._merge_short_segments(segments)
GenerateSrtMerge ==
    /\ spc = "merge"
    /\ merged_segments' = MergeShortSegments(srt_segments, min_duration, self_max_chars)
    /\ spc' = "open"
    /\ UNCHANGED <<srt_segments, srt_i, file>>
    /\ UNCHANGED <<gvars, ovars, mvars, tvars, fvars, pvars, hvars, avars>>

\* open(output_path, 'a'): an existing file keeps its text
GenerateSrtOpenAppend ==
    /\ spc = "open"
    /\ file' = IF file = None THEN <<(<<>>)>> ELSE file
    /\ spc' = "write"
    /\ UNCHANGED <<srt_segments, merged_segments, srt_i>>
    /\ UNCHANGED <<gvars, ovars, mvars, tvars, fvars, pvars, hvars, avars>>

\* open(output_path, 'w'): the file is created or truncated
GenerateSrtOpen ==
    /\ spc = "open"
    /\ file' = <<(<<>>)>>
    /\ spc' = "write"
    /\ UNCHANGED <<srt_segments, merged_segments, srt_i>>
    /\ UNCHANGED <<gvars, ovars, mvars, tvars, fvars, pvars, hvars, avars>>

\* one iteration of "for i, segment in enumerate(merged_segments, start=1)"
GenerateSrtWrite ==
    /\ spc = "write"
    /\ srt_i < Len(merged_segments)
    /\ srt_i' = srt_i + 1
    /\ file' = <<WriteBlock(file[1], srt_i + 1, merged_segments[srt_i + 1])>>
    /\ UNCHANGED <<srt_segments, merged_segments, spc>>
    /\ UNCHANGED <<gvars, ovars, mvars, tvars, fvars, pvars, hvars, avars>>

\* end of the loop: the file is closed and the path returned
GenerateSrtReturn ==
    /\ spc = "write"
    /\ srt_i = Len(merged_segments)
    /\ spc' = "done"
    /\ UNCHANGED <<srt_segments, merged_segments, srt_i, file>>
    /\ UNCHANGED <<gvars, ovars, mvars, tvars, fvars, pvars, hvars, avars>>

SrtNext == GenerateSrtMerge \/ GenerateSrtOpen \/ GenerateSrtWrite \/ GenerateSrtReturn

SpecSrt == SrtInit /\ [][SrtNext]_vars

----------------------------------------------------------------------------
\* SRT writer: properties

\* the blocks of the cues segs, numbered from 1, one after the other
RECURSIVE BlocksFrom(_, _)
BlocksFrom(segs, n) ==
    IF segs = <<>> THEN <<>>
    ELSE Str(n) \o <<"nl">>
         \o FormatTimestamp(segs[1].start_time) \o <<"sp", "-", "-", ">", "sp">>
         \o FormatTimestamp(segs[1].end_time) \o <<"nl">>
         \o segs[1].text \o <<"nl", "nl">>
         \o BlocksFrom(Tail(segs), n + 1)

\* s contains sub
Contains(s, sub) ==
    \E k \in 1..(Len(s) - Len(sub) + 1) : SubSeq(s, k, k + Len(sub) - 1) = sub

\* the two blocks spec.md and test_generate_srt_basic expect
ExpectedBasic ==
    <<"1", "nl",
      "0", "0", ":", "0", "0", ":", "0", "1", ",", "0", "0", "0",
      "sp", "-", "-", ">", "sp",
      "0", "0", ":", "0", "0", ":", "0", "4", ",", "5", "0", "0", "nl",
      "dai", "ichi", "gyou", "ji", "maku", "nl", "nl",
      "2", "nl",
      "0", "0", ":", "0", "0", ":", "0", "5", ",", "0", "0", "0",
      "sp", "-", "-", ">", "sp",
      "0", "0", ":", "0", "0", ":", "0", "8", ",", "7", "5", "0", "nl",
      "dai", "ni", "gyou", "ji", "maku", "nl", "nl">>

\* C6: the file written holds one block per cue of the list passed, in list
\* order, numbered 1..n, block i with the formatted times and the text of
\* input cue i; for the default generator and the cues (1.0-4.5), (5.0-8.75)
\* it contains the block timed 00:00:01,000 --> 00:00:04,500 followed by block
\* 2 timed 00:00:05,000 --> 00:00:08,750.
C6_OneBlockPerInputCue ==
    spc = "done" =>
        /\ file = <<BlocksFrom(srt_segments, 1)>>
        /\ (/\ srt_segments = <<FirstLine, SecondLine>>
            /\ min_duration = 1000
            /\ self_max_chars = 80) => Contains(file[1], ExpectedBasic)

\* the lines of a text that is empty or ends with a line break
RECURSIVE SplitLines(_)
SplitLines(s) ==
    IF s = <<>> THEN <<>>
    ELSE LET k == CHOOSE j \in 1..Len(s) :
                    s[j] = "nl" /\ \A h \in 1..(j - 1) : s[h] /= "nl"
         IN <<SubSeq(s, 1, k - 1)>> \o SplitLines(SubSeq(s, k + 1, Len(s)))

IsDigit(c) == c \in {"0", "1", "2", "3", "4", "5", "6", "7", "8", "9"}

\* HH:MM:SS,mmm
IsTimestamp(l) ==
    /\ Len(l) = 12
    /\ l[3] = ":" /\ l[6] = ":" /\ l[9] = ","
    /\ \A k \in {1, 2, 4, 5, 7, 8, 10, 11, 12} : IsDigit(l[k])

\* "start --> end"
IsTimingLine(l) ==
    /\ Len(l) = 29
    /\ IsTimestamp(SubSeq(l, 1, 12))
    /\ SubSeq(l, 13, 17) = <<"sp", "-", "-", ">", "sp">>
    /\ IsTimestamp(SubSeq(l, 18, 29))

\* C24: what generate_srt has written is a sequence of whole blocks, each an
\* index line, a timing line, a text line and a blank line, the index lines
\* reading 1, 2, ... without a gap; the blank line is there after the last
\* block too, and for no cue the file is empty.
C24_WholeBlocks ==
    (spc \in {"write", "done"}) =>
        LET text == file[1]
            m == IF spc = "done" THEN Len(merged_segments) ELSE srt_i
        IN /\ (text = <<>> \/ text[Len(text)] = "nl")
           /\ (text = <<>> \/ text[Len(text)] = "nl") =>
                LET lines == SplitLines(text)
                IN /\ Len(lines) = 4 * m
                   /\ \A b \in 1..m :
                        /\ lines[4 * b - 3] = Str(b)
                        /\ IsTimingLine(lines[4 * b - 2])
                        /\ lines[4 * b - 1] = merged_segments[b].text
                        /\ lines[4 * b] = <<>>
           /\ (srt_segments = <<>> => text = <<>>)

\* C24 witness: a file of two blocks has been written over an earlier one.
C24_Witness ==
    /\ spc = "done"
    /\ Len(merged_segments) = 2
    /\ Len(SplitLines(file[1])) = 8

----------------------------------------------------------------------------
\* Timestamp formatting on its own

\* whole milliseconds up to MaxMillis, and some longer times: the tests'
\* 65.123, 90.5, 3600, 3661.5 and 7322.25 s, and 25 h and 100 h
TimestampInputs ==
    (0..MaxMillis) \cup {65123, 90500, 3600000, 3661500, 7322250, 90000000,
                          360000000}

FormatInit ==
    /\ GroupIdle /\ ObjectIdle /\ MergeIdle /\ SrtIdle /\ TranslateIdle /\ MainIdle
    /\ OwnIdle /\ TranscribeIdle
    /\ \E t \in TimestampInputs : seconds = <<t>>
    /\ timestamp = None

FormatTimestampCall ==
    /\ seconds /= None
    /\ timestamp = None
    /\ timestamp' = <<FormatTimestamp(seconds[1])>>
    /\ UNCHANGED seconds
    /\ UNCHANGED <<gvars, ovars, mvars, svars, tvars, pvars, hvars, avars>>

FormatNext == FormatTimestampCall

SpecFormat == FormatInit /\ [][FormatNext]_vars

\* n in decimal on at least two digits, on three digits (n < 1000)
TwoDigits(n) ==
    IF n < 100 THEN <<Digit(n \div 10), Digit(n % 10)>> ELSE Str(n)
ThreeDigits(n) ==
    <<Digit(n \div 100), Digit((n \div 10) % 10), Digit(n % 10)>>

\* C20: a time of t whole milliseconds is rendered HH:MM:SS,mmm with
\* HH = t div 3600000 on two digits or more, MM = (t div 60000) mod 60,
\* SS = (t div 1000) mod 60 and mmm = t mod 1000; 0 s gives 00:00:00,000,
\* 3661.5 s gives 01:01:01,500 and 7322.25 s gives 02:02:02,250.
C20_FieldsOfWholeMilliseconds ==
    timestamp /= None =>
        LET t == seconds[1]
        IN /\ timestamp[1] = TwoDigits(t \div 3600000) \o <<":">>
                                \o TwoDigits((t \div 60000) % 60) \o <<":">>
                                \o TwoDigits((t \div 1000) % 60) \o <<",">>
                                \o ThreeDigits(t % 1000)
           /\ (t = 0 => timestamp[1] = <<"0", "0", ":", "0", "0", ":", "0", "0",
                                         ",", "0", "0", "0">>)
           /\ (t = 3661500 => timestamp[1] = <<"0", "1", ":", "0", "1", ":", "0",
                                               "1", ",", "5", "0", "0">>)
           /\ (t = 7322250 => timestamp[1] = <<"0", "2", ":", "0", "2", ":", "0",
                                               "2", ",", "2", "5", "0">>)

----------------------------------------------------------------------------
\* Translation

DefaultBatchSize == 128
DefaultMaxRetries == 3

BatchSizes == {2, 3, DefaultBatchSize}
MaxRetriesValues == {DefaultMaxRetries, 2, 1, 0}

\* the cue at position k of an input list: distinct texts, or one text
\* throughout
DistinctCue(k) ==
    TranscriptSegment(<<"j", Digit(k)>>, 1000 * k, 1000 * k + 750,
                      IF k % 2 = 1 THEN 100 ELSE 50)
SameCue(k) == TranscriptSegment(<<"j">>, 1000 * k, 1000 * k + 750, 100)

TranslateInputs ==
    {[k \in 1..n |-> DistinctCue(k)] : n \in 0..MaxSegments}
        \cup {[k \in 1..n |-> SameCue(k)] : n \in 0..MaxSegments}

\* the collaborator: client.translate(texts, ...) answers text by text
Translation(text) == <<"zh">> \o text

\* what a returning call hands back: a list with one dict per text ("list"),
\* a list that lacks the last one ("short"), or a single dict for the first
\* text ("dict")
ReplyKinds == {"list", "short", "dict"}

Reply(kind, texts) ==
    IF kind = "dict"
    THEN [isdict |-> TRUE,
          value |-> <<[translatedText |-> Translation(texts[1])]>>]
    ELSE [isdict |-> FALSE,
          value |-> [k \in 1..(IF kind = "short" THEN Len(texts) - 1 ELSE Len(texts))
                        |-> [translatedText |-> Translation(texts[k])]]]

\* messages of the exceptions a failing call raises
QuotaExceeded == <<"Q", "u", "o", "t", "a", "sp", "e", "x", "c", "e", "e", "d", "e", "d">>
RateLimit == <<"R", "a", "t", "e", "sp", "L", "I", "M", "I", "T">>
Timeout == <<"T", "i", "m", "e", "o", "u", "t">>
ErrorMessages == {QuotaExceeded, RateLimit, Timeout}

UpperCase == <<"A", "B", "C", "D", "E", "F", "G", "H", "I", "J", "K", "L", "M",
               "N", "O", "P", "Q", "R", "S", "T", "U", "V", "W", "X", "Y", "Z">>
LowerCase == <<"a", "b", "c", "d", "e", "f", "g", "h", "i", "j", "k", "l", "m",
               "n", "o", "p", "q", "r", "s", "t", "u", "v", "w", "x", "y", "z">>

\* str.lower()
Lower(s) ==
    [k \in 1..Len(s) |->
        IF \E n \in 1..26 : UpperCase[n] = s[k]
        THEN LowerCase[CHOOSE n \in 1..26 : UpperCase[n] = s[k]]
        ELSE s[k]]

\* the test without the lower()
IsQuotaErrorCaseSensitive(msg) ==
    \/ Contains(msg, <<"q", "u", "o", "t", "a">>)
    \/ Contains(msg, <<"l", "i", "m", "i", "t">>)

\* "'quota' in error_msg or 'limit' in error_msg" for error_msg = str(e).lower()
IsQuotaError(msg) ==
    LET error_msg == Lower(msg)
    IN \/ Contains(error_msg, <<"q", "u", "o", "t", "a">>)
       \/ Contains(error_msg, <<"l", "i", "m", "i", "t">>)

Min(a, b) == IF a < b THEN a ELSE b

\* a slice that loses the last cue of the batch
BatchOffByOne(segs, start, size) ==
    SubSeq(segs, start + 1, Min(start + size, Len(segs)) - 1)

\* batch = segments[i:i + batch_size]
Batch(segs, start, size) == SubSeq(segs, start + 1, Min(start + size, Len(segs)))

\* translated texts from results (a single dict or a list of dicts)
TranslatedTexts(results) ==
    IF results.isdict THEN <<results.value[1].translatedText>>
    ELSE [k \in 1..Len(results.value) |-> results.value[k].translatedText]

\* a new cue that leaves confidence at its default
NewSegmentDefaultConfidence(segment, translated_text) ==
    TranscriptSegment(translated_text, segment.start_time, segment.end_time, 100)

\* the TranscriptSegment built for one (segment, translated_text) pair
NewSegment(segment, translated_text) ==
    TranscriptSegment(translated_text, segment.start_time, segment.end_time,
                      segment.confidence)

\* "for segment, translated_text in zip(batch, translated_texts)"
Zipped(batch, translated_texts) ==
    [k \in 1..Min(Len(batch), Len(translated_texts)) |->
        NewSegment(batch[k], translated_texts[k])]

\* a linear backoff, 2 * attempt
Pow2Linear(n) == 2 * n

RECURSIVE Pow2(_)
Pow2(n) == IF n = 0 THEN 1 ELSE 2 * Pow2(n - 1)

Running == [kind |-> "none", value |-> <<>>, exc |-> "none"]
Returned(v) == [kind |-> "returned", value |-> v, exc |-> "none"]
Raised(e) == [kind |-> "raised", value |-> <<>>, exc |-> e]

TranslateInit ==
    /\ GroupIdle /\ ObjectIdle /\ MergeIdle /\ SrtIdle /\ FormatIdle /\ MainIdle
    /\ OwnIdle /\ TranscribeIdle
    /\ tsegments \in TranslateInputs
    /\ batch_size \in BatchSizes
    /\ max_retries \in MaxRetriesValues
    /\ translated_segments = <<>>
    /\ i = 0
    /\ attempt = 0
    /\ calls = <<>>
    /\ sleeps = <<>>
    /\ outcome = Running
    /\ tpc = "start"

\* an entry that asks the collaborator before it looks at the list
TranslateStartCallsFirst ==
    /\ tpc = "start"
    /\ calls' = Append(calls, [i |-> 0, attempt |-> 0,
                               texts |-> TextsOfSegments(Batch(tsegments, 0, batch_size)),
                               kind |-> "list", n |-> 0, msg |-> <<>>])
    /\ IF tsegments = <<>>
       THEN outcome' = Returned(<<>>) /\ tpc' = "done"
       ELSE outcome' = outcome /\ tpc' = "batch"
    /\ UNCHANGED <<tsegments, batch_size, max_retries, translated_segments, i,
                   attempt, sleeps>>
    /\ UNCHANGED <<gvars, ovars, mvars, svars, fvars, pvars, hvars, avars>>

\* entry of translate_segments: "if not segments: return []", else the loop
\* starts with its first batch
TranslateStart ==
    /\ tpc = "start"
    /\ IF tsegments = <<>>
       THEN outcome' = Returned(<<>>) /\ tpc' = "done"
       ELSE outcome' = outcome /\ tpc' = "batch"
    /\ UNCHANGED <<tsegments, batch_size, max_retries, translated_segments, i,
                   attempt, calls, sleeps>>
    /\ UNCHANGED <<gvars, ovars, mvars, svars, fvars, pvars, hvars, avars>>

\* an attempt whose client.translate call returns: the translated texts are
\* zipped onto the batch and the loop moves to the next batch
TranslateCallReturns(kind) ==
    /\ tpc = "batch"
    /\ i < Len(tsegments)
    /\ attempt < max_retries
    /\ LET batch == Batch(tsegments, i, batch_size)
           texts == TextsOfSegments(batch)
           translated_texts == TranslatedTexts(Reply(kind, texts))
       IN /\ calls' = Append(calls, [i |-> i, attempt |-> attempt, texts |-> texts,
                                     kind |-> kind, n |-> Len(translated_texts),
                                     msg |-> <<>>])
          /\ translated_segments' = translated_segments \o Zipped(batch, translated_texts)
    /\ i' = i + batch_size
    /\ attempt' = 0
    /\ UNCHANGED <<tsegments, batch_size, max_retries, sleeps, outcome, tpc>>
    /\ UNCHANGED <<gvars, ovars, mvars, svars, fvars, pvars, hvars, avars>>

\* an except handler that gives the batch up after the last attempt and lets
\* the loop go on with the next batch
TranslateCallRaisesSkipsBatch(msg) ==
    /\ tpc = "batch"
    /\ i < Len(tsegments)
    /\ attempt < max_retries
    /\ calls' = Append(calls, [i |-> i, attempt |-> attempt,
                               texts |-> TextsOfSegments(Batch(tsegments, i, batch_size)),
                               kind |-> "error", n |-> 0, msg |-> msg])
    /\ IF IsQuotaError(msg)
       THEN /\ outcome' = Raised("APIQuotaExceeded")
            /\ tpc' = "done"
            /\ UNCHANGED <<attempt, sleeps, i>>
       ELSE IF attempt = max_retries - 1
       THEN /\ i' = i + batch_size
            /\ attempt' = 0
            /\ UNCHANGED <<outcome, tpc, sleeps>>
       ELSE /\ sleeps' = Append(sleeps, [i |-> i, delay |-> Pow2(attempt) * 1])
            /\ attempt' = attempt + 1
            /\ UNCHANGED <<outcome, tpc, i>>
    /\ UNCHANGED <<tsegments, batch_size, max_retries, translated_segments>>
    /\ UNCHANGED <<gvars, ovars, mvars, svars, fvars, pvars, hvars, avars>>

\* an except handler that gives up one attempt late
\* ("if attempt == max_retries")
TranslateCallRaisesOneMore(msg) ==
    /\ tpc = "batch"
    /\ i < Len(tsegments)
    /\ attempt <= max_retries
    /\ calls' = Append(calls, [i |-> i, attempt |-> attempt,
                               texts |-> TextsOfSegments(Batch(tsegments, i, batch_size)),
                               kind |-> "error", n |-> 0, msg |-> msg])
    /\ IF IsQuotaError(msg)
       THEN /\ outcome' = Raised("APIQuotaExceeded")
            /\ tpc' = "done"
            /\ UNCHANGED <<attempt, sleeps>>
       ELSE IF attempt = max_retries
       THEN /\ outcome' = Raised("TranslationError")
            /\ tpc' = "done"
            /\ UNCHANGED <<attempt, sleeps>>
       ELSE /\ sleeps' = Append(sleeps, [i |-> i, delay |-> Pow2(attempt) * 1])
            /\ attempt' = attempt + 1
            /\ UNCHANGED <<outcome, tpc>>
    /\ UNCHANGED <<tsegments, batch_size, max_retries, translated_segments, i>>
    /\ UNCHANGED <<gvars, ovars, mvars, svars, fvars, pvars, hvars, avars>>

\* an attempt whose client.translate call raises: the except handler
TranslateCallRaises(msg) ==
    /\ tpc = "batch"
    /\ i < Len(tsegments)
    /\ attempt < max_retries
    /\ calls' = Append(calls, [i |-> i, attempt |-> attempt,
                               texts |-> TextsOfSegments(Batch(tsegments, i, batch_size)),
                               kind |-> "error", n |-> 0, msg |-> msg])
    /\ IF IsQuotaError(msg)
       THEN /\ outcome' = Raised("APIQuotaExceeded")
            /\ tpc' = "done"
            /\ UNCHANGED <<attempt, sleeps>>
       ELSE IF attempt = max_retries - 1
       THEN /\ outcome' = Raised("TranslationError")
            /\ tpc' = "done"
            /\ UNCHANGED <<attempt, sleeps>>
       ELSE /\ sleeps' = Append(sleeps, [i |-> i, delay |-> Pow2(attempt) * 1])
            /\ attempt' = attempt + 1
            /\ UNCHANGED <<outcome, tpc>>
    /\ UNCHANGED <<tsegments, batch_size, max_retries, translated_segments, i>>
    /\ UNCHANGED <<gvars, ovars, mvars, svars, fvars, pvars, hvars, avars>>

\* "for attempt in range(max_retries)" ends without an attempt: the raise
\* after the loop
TranslateNoAttempt ==
    /\ tpc = "batch"
    /\ i < Len(tsegments)
    /\ attempt >= max_retries
    /\ outcome' = Raised("TranslationError")
    /\ tpc' = "done"
    /\ UNCHANGED <<tsegments, batch_size, max_retries, translated_segments, i,
                   attempt, calls, sleeps>>
    /\ UNCHANGED <<gvars, ovars, mvars, svars, fvars, pvars, hvars, avars>>

\* end of "for i in range(0, len(segments), batch_size)": return
TranslateReturn ==
    /\ tpc = "batch"
    /\ i >= Len(tsegments)
    /\ outcome' = Returned(translated_segments)
    /\ tpc' = "done"
    /\ UNCHANGED <<tsegments, batch_size, max_retries, translated_segments, i,
                   attempt, calls, sleeps>>
    /\ UNCHANGED <<gvars, ovars, mvars, svars, fvars, pvars, hvars, avars>>

TranslateCall ==
    \/ \E kind \in ReplyKinds : TranslateCallReturns(kind)
    \/ \E msg \in ErrorMessages : TranslateCallRaises(msg)

TranslateNext ==
    TranslateStart \/ TranslateCall \/ TranslateNoAttempt \/ TranslateReturn

SpecTranslate == TranslateInit /\ [][TranslateNext]_vars

\* every collaborator call returns or raises, and the interpreter goes on
\* with the next statement
SpecTranslateLive == SpecTranslate /\ WF_vars(TranslateNext)

----------------------------------------------------------------------------
\* Translation: properties

Ceil(n, b) == (n + b - 1) \div b

\* every client.translate call so far returned
AllCallsReturned == \A k \in 1..Len(calls) : calls[k].kind /= "error"

\* every call that returned gave one translation per text
OnePerText ==
    \A k \in 1..Len(calls) :
        calls[k].kind /= "error" => calls[k].n = Len(calls[k].texts)

\* C7: every call receives the texts, in order, of one chunk: the cues from a
\* multiple of batch_size up to batch_size further or the end of the list;
\* and when every call returns, translate_segments returns after exactly
\* ceil(n / batch_size) calls, the k-th for the k-th chunk (5 cues with
\* batch_size 2: calls of sizes 2, 2, 1).
C7_OneCallPerChunk ==
    /\ \A k \in 1..Len(calls) :
        LET c == calls[k]
        IN /\ c.i % batch_size = 0
           /\ c.i < Len(tsegments)
           /\ Len(c.texts) = Min(batch_size, Len(tsegments) - c.i)
           /\ \A j \in 1..Len(c.texts) : c.texts[j] = tsegments[c.i + j].text
    /\ (outcome.kind = "returned" /\ AllCallsReturned) =>
        /\ Len(calls) = Ceil(Len(tsegments), batch_size)
        /\ \A k \in 1..Len(calls) : calls[k].i = (k - 1) * batch_size
        /\ (Len(tsegments) = 5 /\ batch_size = 2) =>
             [k \in 1..Len(calls) |-> Len(calls[k].texts)] = <<2, 2, 1>>

\* C7 witness: 5 cues, batch_size 2, every call returned, returned.
C7_Witness ==
    /\ outcome.kind = "returned"
    /\ AllCallsReturned
    /\ Len(tsegments) = 5
    /\ batch_size = 2
    /\ Len(calls) = 3

\* C8: when every returning call gives one translation per text, the list
\* returned has the length of the input and its cue at position j has the
\* start, end and confidence of input cue j and the translation of its text.
C8_PositionalResult ==
    (outcome.kind = "returned" /\ OnePerText) =>
        /\ Len(outcome.value) = Len(tsegments)
        /\ \A j \in 1..Len(tsegments) :
            outcome.value[j] = [text |-> <<"zh">> \o tsegments[j].text,
                                start_time |-> tsegments[j].start_time,
                                end_time |-> tsegments[j].end_time,
                                confidence |-> tsegments[j].confidence]

\* C8 witness: a return over several chunks, one of them retried, every
\* returning call complete.
C8_Witness ==
    /\ outcome.kind = "returned"
    /\ OnePerText
    /\ Len(tsegments) > batch_size
    /\ \E k \in 1..Len(calls) : calls[k].kind = "error"
    /\ \E j \in 1..Len(tsegments) : tsegments[j].confidence /= 100

\* C9: a call that fails with a message containing "quota" or "limit" in any
\* letter case ends the translation at once as APIQuotaExceeded, on whichever
\* attempt, without a sleep; and once the translation has raised, no call and
\* no sleep follows.
C9_QuotaAbortsAtOnce ==
    /\ [][(Len(calls') = Len(calls) + 1
            /\ calls'[Len(calls')].kind = "error"
            /\ calls'[Len(calls')].msg \in {QuotaExceeded, RateLimit})
          => /\ outcome' = [kind |-> "raised", value |-> <<>>, exc |-> "APIQuotaExceeded"]
             /\ sleeps' = sleeps]_vars
    /\ [][outcome.kind = "raised"
          => (calls' = calls /\ sleeps' = sleeps /\ outcome' = outcome)]_vars

\* C9 witness: quota exhaustion raised on the last attempt of a later batch.
C9_Witness ==
    /\ outcome.kind = "raised"
    /\ outcome.exc = "APIQuotaExceeded"
    /\ max_retries = 3
    /\ attempt = 2
    /\ i > 0

\* C10: with max_retries = 3, a batch that fails as a translation failure
\* has been called 4 times and retried after delays of 1 s, 2 s and 4 s.
C10_ThreeDelaysFourCalls ==
    (max_retries = 3 /\ outcome.kind = "raised" /\ outcome.exc = "TranslationError") =>
        LET mine == SelectSeq(calls, LAMBDA c : c.i = i)
            waits == SelectSeq(sleeps, LAMBDA w : w.i = i)
        IN /\ Len(mine) = 4
           /\ [k \in 1..Len(waits) |-> waits[k].delay] = <<1, 2, 4>>

\* the calls made for the batch that starts at cue b, in order
CallsOf(b) == SelectSeq(calls, LAMBDA c : c.i = b)

\* C11: for one batch the attempts are numbered 0, 1, ... and there are at most
\* max_retries of them; a transient failure on attempt k < max_retries - 1 is
\* followed by a sleep of exactly 2^k seconds and attempt k + 1, a transient
\* failure on attempt max_retries - 1 raises TranslationError without a
\* sleep, and a call that returns ends the batch: no further call is made
\* for it.
C11_BoundedAttempts ==
    /\ [](\A b \in 0..Len(tsegments) :
            LET mine == CallsOf(b)
            IN /\ Len(mine) <= max_retries
               /\ \A k \in 1..Len(mine) :
                    /\ mine[k].attempt = k - 1
                    /\ (mine[k].kind /= "error" => k = Len(mine)))
    /\ [][(Len(calls') = Len(calls) + 1
            /\ calls'[Len(calls')].kind = "error"
            /\ calls'[Len(calls')].msg = Timeout)
          => LET k == calls'[Len(calls')].attempt
             IN IF k < max_retries - 1
                THEN /\ sleeps' = Append(sleeps,
                                         [i |-> i,
                                          delay |-> CASE k = 0 -> 1 [] k = 1 -> 2
                                                      [] k = 2 -> 4 [] OTHER -> 0])
                     /\ attempt' = k + 1
                     /\ i' = i
                     /\ outcome' = outcome
                ELSE /\ sleeps' = sleeps
                     /\ outcome' = [kind |-> "raised", value |-> <<>>,
                                    exc |-> "TranslationError"]]_vars
    /\ [][(Len(calls') = Len(calls) + 1 /\ calls'[Len(calls')].kind /= "error")
          => (sleeps' = sleeps /\ i' > i)]_vars

\* C11 witness: a batch slept 1 s and 2 s and failed on its third attempt.
C11_Witness ==
    /\ max_retries = 3
    /\ outcome.exc = "TranslationError"
    /\ Len(CallsOf(i)) = 3
    /\ Len(sleeps) >= 2
    /\ sleeps[Len(sleeps)].delay = 2
    /\ sleeps[Len(sleeps) - 1].delay = 1

\* C12: the first call for a chunk other than the first comes after a call
\* for the chunk before it has returned; once a chunk has failed the
\* translation raises: nothing is returned, however many chunks were
\* translated before, and no call is made for a later chunk.
C12_StrictlySequential ==
    /\ [](\A k \in 1..Len(calls) :
            calls[k].i > 0 =>
                \E j \in 1..(k - 1) :
                    /\ calls[j].i = calls[k].i - batch_size
                    /\ calls[j].kind /= "error")
    /\ []((\E k \in 1..Len(calls) :
              /\ calls[k].kind = "error"
              /\ (calls[k].msg \in {QuotaExceeded, RateLimit}
                    \/ calls[k].attempt = max_retries - 1))
          => /\ outcome.kind = "raised"
             /\ outcome.value = <<>>
             /\ \A k \in 1..Len(calls) : calls[k].i <= calls[Len(calls)].i
             /\ calls[Len(calls)].kind = "error")
    /\ [][outcome.kind = "raised" => (calls' = calls /\ outcome' = outcome)]_vars

\* C12 witness: a later chunk failed after an earlier one had been translated,
\* with chunks still to come.
C12_Witness ==
    /\ outcome.kind = "raised"
    /\ i > 0
    /\ translated_segments /= <<>>
    /\ i + batch_size < Len(tsegments)

\* C28: a translate_segments that returns gives back as many cues as it was
\* given, and a reply with another number of translations than the batch has
\* texts makes it raise.
C28_NoCueLost ==
    /\ outcome.kind = "returned" => Len(outcome.value) = Len(tsegments)
    /\ (tpc = "done"
        /\ \E k \in 1..Len(calls) :
             calls[k].kind /= "error" /\ calls[k].n /= Len(calls[k].texts))
         => outcome.kind = "raised"

\* C29: with batch_size and max_retries of 1 or more, translate_segments
\* comes to an end, returning or raising, after no more than
\* ceil(n / batch_size) * max_retries calls and
\* ceil(n / batch_size) * (max_retries - 1) sleeps, and a batch that was
\* answered is not asked for again.
C29_Terminates ==
    /\ <>(tpc = "done" /\ outcome.kind \in {"returned", "raised"})
    /\ []((batch_size >= 1 /\ max_retries >= 1)
            => /\ Len(calls) <= Ceil(Len(tsegments), batch_size) * max_retries
               /\ Len(sleeps) <= Ceil(Len(tsegments), batch_size) * (max_retries - 1))
    /\ [](\A j, k \in 1..Len(calls) :
            (j < k /\ calls[j].kind /= "error") => calls[k].i > calls[j].i)

\* C29 witness: a return after several batches, with a retry on the way.
C29_Witness ==
    /\ tpc = "done"
    /\ outcome.kind = "returned"
    /\ Ceil(Len(tsegments), batch_size) >= 2
    /\ Len(calls) > Ceil(Len(tsegments), batch_size)
    /\ Len(sleeps) >= 1

----------------------------------------------------------------------------
\* The pipeline: main

\* the steps of the try block, in program order
Steps == <<"Settings", "validate_video_file", "extract_audio",
           "transcribe_audio", "translate_segments", "generate_srt",
           "cleanup_temp_files">>

StepAfter(st) == Steps[(CHOOSE k \in 1..Len(Steps) : Steps[k] = st) + 1]

\* settings.translation_config['batch_size'],
\* settings.subtitle_config['min_segment_duration'] and
\* ['max_chars_per_segment']
SettingsBatchSize == 128
SettingsMinSegmentDuration == 1000
SettingsMaxCharsPerSegment == 80
\* settings.subtitle_config['max_segment_duration'] and
\* ['min_gap_between_subtitles']: no statement reads them
SettingsMaxSegmentDuration == 5000
SettingsMinGapBetweenSubtitles == 200

\* what recognizer.transcribe_audio may return
RecognizerOutputs ==
    {[k \in 1..n |-> DistinctCue(k)] : n \in 0..MaxDraft} \cup SrtInputs

MainInit ==
    /\ GroupIdle /\ ObjectIdle /\ MergeIdle /\ TranslateIdle /\ FormatIdle
    /\ OwnIdle /\ TranscribeIdle
    /\ srt_segments = <<>>
    /\ merged_segments = <<>>
    /\ srt_i = 0
    /\ file \in {None, <<(<<"o", "l", "d", "nl">>)>>}
    /\ spc = "idle"
    /\ stage = "Settings"
    /\ ran = <<>>
    /\ japanese_segments = <<>>
    /\ chinese_segments = <<>>
    /\ caught = None
    /\ exit_code = None

\* Settings(...) and validate(), validate_video_file, extract_audio and
\* get_audio_duration: a step that returns
MainStep ==
    /\ stage \in {"Settings", "validate_video_file", "extract_audio"}
    /\ ran' = Append(ran, stage)
    /\ stage' = StepAfter(stage)
    /\ UNCHANGED <<japanese_segments, chinese_segments, caught, exit_code>>
    /\ UNCHANGED <<gvars, ovars, mvars, svars, tvars, fvars, hvars, avars>>

\* one of the first four steps raises: an except clause returns 1
MainStepRaises ==
    /\ stage \in {"Settings", "validate_video_file", "extract_audio",
                  "transcribe_audio"}
    /\ ran' = Append(ran, stage)
    /\ caught' = <<stage>>
    /\ exit_code' = <<1>>
    /\ stage' = "done"
    /\ UNCHANGED <<japanese_segments, chinese_segments>>
    /\ UNCHANGED <<gvars, ovars, mvars, svars, tvars, fvars, hvars, avars>>

\* japanese_segments = recognizer.transcribe_audio(...)
MainTranscribe ==
    /\ stage = "transcribe_audio"
    /\ \E js \in RecognizerOutputs : japanese_segments' = js
    /\ ran' = Append(ran, stage)
    /\ stage' = "translate_segments"
    /\ UNCHANGED <<chinese_segments, caught, exit_code>>
    /\ UNCHANGED <<gvars, ovars, mvars, svars, tvars, fvars, hvars, avars>>

\* the call translator.translate_segments(japanese_segments, ...,
\* batch_size=settings.translation_config['batch_size'])
MainTranslate ==
    /\ stage = "translate_segments"
    /\ tpc = "idle"
    /\ ran' = Append(ran, stage)
    /\ tsegments' = japanese_segments
    /\ batch_size' = SettingsBatchSize
    /\ max_retries' = DefaultMaxRetries
    /\ translated_segments' = <<>>
    /\ i' = 0
    /\ attempt' = 0
    /\ calls' = <<>>
    /\ sleeps' = <<>>
    /\ outcome' = Running
    /\ tpc' = "start"
    /\ UNCHANGED <<stage, japanese_segments, chinese_segments, caught, exit_code>>
    /\ UNCHANGED <<gvars, ovars, mvars, svars, fvars, hvars, avars>>

\* a translation that raised is given to generate_srt as far as it got
MainTranslateDoneGoesOn ==
    /\ stage = "translate_segments"
    /\ tpc = "done"
    /\ chinese_segments' = IF outcome.kind = "raised" THEN translated_segments
                           ELSE outcome.value
    /\ stage' = "generate_srt"
    /\ UNCHANGED <<ran, japanese_segments, caught, exit_code>>
    /\ UNCHANGED <<gvars, ovars, mvars, svars, tvars, fvars, hvars, avars>>

\* translate_segments is over: its exception reaches an except clause, or its
\* value is bound to chinese_segments
MainTranslateDone ==
    /\ stage = "translate_segments"
    /\ tpc = "done"
    /\ IF outcome.kind = "raised"
       THEN /\ caught' = <<stage>>
            /\ exit_code' = <<1>>
            /\ stage' = "done"
            /\ UNCHANGED chinese_segments
       ELSE /\ chinese_segments' = outcome.value
            /\ stage' = "generate_srt"
            /\ UNCHANGED <<caught, exit_code>>
    /\ UNCHANGED <<ran, japanese_segments>>
    /\ UNCHANGED <<gvars, ovars, mvars, svars, tvars, fvars, hvars, avars>>

\* generator = SubtitleGenerator(min_duration=..., max_chars=...) and the call
\* generator.generate_srt(chinese_segments, output_path)
MainGenerateSrt ==
    /\ stage = "generate_srt"
    /\ spc = "idle"
    /\ ran' = Append(ran, stage)
    /\ min_duration' = SettingsMinSegmentDuration
    /\ self_max_chars' = SettingsMaxCharsPerSegment
    /\ srt_segments' = chinese_segments
    /\ merged_segments' = <<>>
    /\ srt_i' = 0
    /\ spc' = "merge"
    /\ UNCHANGED file
    /\ UNCHANGED <<stage, japanese_segments, chinese_segments, caught, exit_code>>
    /\ UNCHANGED <<gvars, mvars, tvars, fvars, hvars, avars>>

\* mkdir or open raises inside generate_srt: nothing is written
MainGenerateSrtRaises ==
    /\ stage = "generate_srt"
    /\ spc = "open"
    /\ spc' = "raised"
    /\ caught' = <<stage>>
    /\ exit_code' = <<1>>
    /\ stage' = "done"
    /\ UNCHANGED <<srt_segments, merged_segments, srt_i, file>>
    /\ UNCHANGED <<ran, japanese_segments, chinese_segments>>
    /\ UNCHANGED <<gvars, ovars, mvars, tvars, fvars, hvars, avars>>

\* generate_srt returned
MainGenerateSrtDone ==
    /\ stage = "generate_srt"
    /\ spc = "done"
    /\ stage' = "cleanup_temp_files"
    /\ UNCHANGED <<ran, japanese_segments, chinese_segments, caught, exit_code>>
    /\ UNCHANGED <<gvars, ovars, mvars, svars, tvars, fvars, hvars, avars>>

\* "if not keep_temp: cleanup_temp_files(...)", then "return 0"
MainReturn ==
    /\ stage = "cleanup_temp_files"
    /\ \E keep_temp \in BOOLEAN :
         ran' = IF keep_temp THEN ran ELSE Append(ran, stage)
    /\ exit_code' = <<0>>
    /\ stage' = "done"
    /\ UNCHANGED <<japanese_segments, chinese_segments, caught>>
    /\ UNCHANGED <<gvars, ovars, mvars, svars, tvars, fvars, hvars, avars>>

MainNext ==
    \/ MainStep \/ MainStepRaises \/ MainTranscribe
    \/ MainTranslate \/ TranslateStart \/ TranslateCall \/ TranslateReturn
    \/ MainTranslateDone
    \/ MainGenerateSrt \/ SrtNext \/ MainGenerateSrtRaises \/ MainGenerateSrtDone
    \/ MainReturn

SpecMain == MainInit /\ [][MainNext]_vars

----------------------------------------------------------------------------
\* The pipeline: properties

\* C13: when translate_segments or an earlier step raises, no later step is
\* entered, generate_srt is not called and the subtitle file is left as it
\* was, and main returns 1; main returns 0 only after generate_srt returned.
C13_FailureStopsPipeline ==
    /\ [](ran = SubSeq(Steps, 1, Len(ran)))
    /\ []((caught /= None /\ caught[1] /= "generate_srt")
            => /\ exit_code = <<1>>
               /\ stage = "done"
               /\ ran[Len(ran)] = caught[1]
               /\ spc = "idle")
    /\ [](outcome.kind = "raised" => spc = "idle")
    /\ [][(outcome.kind = "raised" /\ stage /= "done")
            => (exit_code' = <<1>> /\ stage' = "done")]_pvars
    /\ [][file' /= file
            => (stage = "generate_srt" /\ outcome.kind = "returned"
                /\ caught = None)]_vars
    /\ [](exit_code = <<0>> => (spc = "done" /\ caught = None))
    /\ [](stage = "done" => exit_code \in {<<0>>, <<1>>})

\* C13 witness: main returned 1 after the translation gave up, with the
\* subtitle file of an earlier run still in place.
C13_Witness ==
    /\ stage = "done"
    /\ exit_code = <<1>>
    /\ caught = <<"translate_segments">>
    /\ outcome.exc = "TranslationError"
    /\ file = <<(<<"o", "l", "d", "nl">>)>>

\* C14: the texts sent to the translation collaborator are the texts of the
\* cues the merge pass makes of the recognizer's cues, and the cues written
\* to the file are the translated cues, as many as the merge pass made and
\* with its timing.
C14_MergeBeforeTranslation ==
    LET final == MergeShortSegments(japanese_segments, SettingsMinSegmentDuration,
                                    SettingsMaxCharsPerSegment)
    IN /\ \A k \in 1..Len(calls) :
            calls[k].texts = TextsOfSegments(Batch(final, calls[k].i, batch_size))
       /\ spc = "done" =>
            /\ merged_segments = chinese_segments
            /\ Len(merged_segments) = Len(final)
            /\ \A k \in 1..Len(final) :
                 /\ merged_segments[k].start_time = final[k].start_time
                 /\ merged_segments[k].end_time = final[k].end_time

\* C25: the thresholds applied are the configured ones: the merge pass of
\* the pipeline runs with min_segment_duration and max_chars_per_segment, it
\* joins two cues of which the first is long enough only when the gap between
\* them is below min_gap_between_subtitles, and the grouper cuts at
\* max_segment_duration and max_chars_per_segment.
C25_ConfiguredThresholds ==
    /\ DefaultMaxDuration = SettingsMaxSegmentDuration
    /\ DefaultMaxChars = SettingsMaxCharsPerSegment
    /\ spc = "done" =>
         /\ min_duration = SettingsMinSegmentDuration
         /\ self_max_chars = SettingsMaxCharsPerSegment
         /\ (/\ Len(srt_segments) = 2
             /\ Len(merged_segments) = 1
             /\ srt_segments[1].end_time - srt_segments[1].start_time
                  >= SettingsMinSegmentDuration)
              => srt_segments[2].start_time - srt_segments[1].end_time
                   < SettingsMinGapBetweenSubtitles

----------------------------------------------------------------------------
\* Objects: the merge pass and translate_segments on references.  A cue is
\* an object of the heap, a list holds references, and an assignment to a
\* field changes the object for every list that holds it.

\* TranscriptSegment(text=segment.text, ...): a new object with the fields
\* of the object at ref
CopyOf(h, ref) ==
    TranscriptSegment(h[ref].text, h[ref].start_time, h[ref].end_time,
                      h[ref].confidence)

\* a loop body that keeps the input object itself as the accumulator
\* ("current = segment")
OwnMergeOneAliased(h, st, ref, mind, maxc) ==
    IF st.current = None
    THEN [heap |-> h, merged |-> st.merged, current |-> <<ref>>]
    ELSE LET c == st.current[1]
         IN IF ShouldMerge(h[c], h[ref], mind, maxc)
            THEN [heap |-> [h EXCEPT ![c].text = h[c].text \o <<"sp">> \o h[ref].text,
                                     ![c].end_time = h[ref].end_time],
                  merged |-> st.merged,
                  current |-> st.current]
            ELSE [heap |-> h, merged |-> Append(st.merged, c), current |-> <<ref>>]

\* one iteration of "for segment in segments" of _merge_short_segments, on
\* st = [merged, current] and the heap h; segment is the object at ref
OwnMergeOne(h, st, ref, mind, maxc) ==
    IF st.current = None
    THEN [heap |-> Append(h, CopyOf(h, ref)),
          merged |-> st.merged,
          current |-> <<Len(h) + 1>>]
    ELSE LET c == st.current[1]
         IN IF ShouldMerge(h[c], h[ref], mind, maxc)
            THEN [heap |-> [h EXCEPT ![c].text = h[c].text \o <<"sp">> \o h[ref].text,
                                     ![c].end_time = h[ref].end_time],
                  merged |-> st.merged,
                  current |-> st.current]
            ELSE [heap |-> Append(h, CopyOf(h, ref)),
                  merged |-> Append(st.merged, c),
                  current |-> <<Len(h) + 1>>]

OwnInit ==
    /\ GroupIdle /\ MergeIdle /\ SrtIdle /\ TranslateIdle /\ FormatIdle /\ MainIdle
    /\ TranscribeIdle
    /\ \E p \in MergeParams : min_duration = p[1] /\ self_max_chars = p[2]
    /\ heap = <<>>
    /\ segments_arg = <<>>
    /\ own_merged = <<>>
    /\ own_current = None
    /\ own_k = 0
    /\ own_result = None
    /\ opc = "caller"

OwnLastEnd == IF heap = <<>> THEN 0 ELSE heap[Len(heap)].end_time

\* the caller makes a cue and appends it to the list it will pass
OwnNewCue ==
    /\ opc = "caller"
    /\ Len(segments_arg) < MaxOwnCues
    /\ \E t \in CueTexts, tm \in CueTimings :
         heap' = Append(heap, TranscriptSegment(t[1], OwnLastEnd + tm[1],
                                                OwnLastEnd + tm[1] + tm[2], t[2]))
    /\ segments_arg' = Append(segments_arg, Len(heap) + 1)
    /\ UNCHANGED <<own_merged, own_current, own_k, own_result, opc>>
    /\ UNCHANGED <<gvars, ovars, mvars, svars, tvars, fvars, pvars, avars>>

\* the call: "if not segments: return []", else the loop starts
OwnCall ==
    /\ opc = "caller"
    /\ IF segments_arg = <<>>
       THEN own_result' = <<(<<>>)>> /\ opc' = "returned"
       ELSE own_result' = own_result /\ opc' \in {"merge", "translate"}
    /\ UNCHANGED <<heap, segments_arg, own_merged, own_current, own_k>>
    /\ UNCHANGED <<gvars, ovars, mvars, svars, tvars, fvars, pvars, avars>>

\* one iteration of the loop of _merge_short_segments
OwnMergeSegment ==
    /\ opc = "merge"
    /\ own_k < Len(segments_arg)
    /\ LET st == OwnMergeOne(heap, [merged |-> own_merged, current |-> own_current],
                             segments_arg[own_k + 1], min_duration, self_max_chars)
       IN heap' = st.heap /\ own_merged' = st.merged /\ own_current' = st.current
    /\ own_k' = own_k + 1
    /\ UNCHANGED <<segments_arg, own_result, opc>>
    /\ UNCHANGED <<gvars, ovars, mvars, svars, tvars, fvars, pvars, avars>>

\* "if current is not None: merged.append(current)", "return merged"
OwnMergeReturn ==
    /\ opc = "merge"
    /\ own_k = Len(segments_arg)
    /\ own_result' = <<IF own_current /= None
                       THEN Append(own_merged, own_current[1]) ELSE own_merged>>
    /\ opc' = "returned"
    /\ UNCHANGED <<heap, segments_arg, own_merged, own_current, own_k>>
    /\ UNCHANGED <<gvars, ovars, mvars, svars, tvars, fvars, pvars, avars>>

\* one iteration of the zip loop of translate_segments, the collaborator
\* having answered text by text
OwnTranslateSegment ==
    /\ opc = "translate"
    /\ own_k < Len(segments_arg)
    /\ LET segment == heap[segments_arg[own_k + 1]]
       IN heap' = Append(heap, NewSegment(segment, Translation(segment.text)))
    /\ own_merged' = Append(own_merged, Len(heap) + 1)
    /\ own_k' = own_k + 1
    /\ UNCHANGED <<segments_arg, own_current, own_result, opc>>
    /\ UNCHANGED <<gvars, ovars, mvars, svars, tvars, fvars, pvars, avars>>

\* "return translated_segments"
OwnTranslateReturn ==
    /\ opc = "translate"
    /\ own_k = Len(segments_arg)
    /\ own_result' = <<own_merged>>
    /\ opc' = "returned"
    /\ UNCHANGED <<heap, segments_arg, own_merged, own_current, own_k>>
    /\ UNCHANGED <<gvars, ovars, mvars, svars, tvars, fvars, pvars, avars>>

\* the caller assigns to the text of a cue of the list it got back
OwnCallerEdits ==
    /\ opc = "returned"
    /\ \E k \in 1..Len(own_result[1]) :
         heap' = [heap EXCEPT ![own_result[1][k]].text = <<"x">>]
    /\ opc' = "edited"
    /\ UNCHANGED <<segments_arg, own_merged, own_current, own_k, own_result>>
    /\ UNCHANGED <<gvars, ovars, mvars, svars, tvars, fvars, pvars, avars>>

OwnNext ==
    \/ OwnNewCue \/ OwnCall
    \/ OwnMergeSegment \/ OwnMergeReturn
    \/ OwnTranslateSegment \/ OwnTranslateReturn
    \/ OwnCallerEdits

SpecOwn == OwnInit /\ [][OwnNext]_vars

\* the objects a list of references holds
ObjectsOf(refs) == {refs[k] : k \in 1..Len(refs)}

\* C23: once the merge pass or translate_segments has been called, the list
\* it was given and the fields of every cue of that list stay as they were,
\* also when the caller later assigns to a cue of the result; every cue of
\* the result is an object of its own, none of them an element of the input
\* list.
C23_OutputOwned ==
    /\ [][opc /= "caller"
            => /\ segments_arg' = segments_arg
               /\ \A k \in 1..Len(segments_arg) :
                    heap'[segments_arg[k]] = heap[segments_arg[k]]]_vars
    /\ [](own_result /= None
            => /\ ObjectsOf(own_result[1]) \cap ObjectsOf(segments_arg) = {}
               /\ Cardinality(ObjectsOf(own_result[1])) = Len(own_result[1]))

\* C23 witness: the merge pass returned as many cues as it was given, one or
\* more, and the caller has assigned to one of them.
C23_Witness ==
    /\ opc = "edited"
    /\ own_current /= None
    /\ Len(segments_arg) >= 1
    /\ Len(own_result[1]) = Len(segments_arg)

----------------------------------------------------------------------------
\* Empty inputs

\* C21: every stage answers an empty list with an empty result and does not
\* raise: the grouper returns no cue for no token, the merge pass returns the
\* empty list, translate_segments returns the empty list, and generate_srt
\* writes a file with nothing in it and returns.
C21_EmptyPropagates ==
    /\ (gpc = "done" /\ words = <<>>) => segments = <<>>
    /\ (mpc = "done" /\ msegments = <<>>) => merged = <<>>
    /\ (tpc = "done" /\ tsegments = <<>>)
         => outcome = [kind |-> "returned", value |-> <<>>, exc |-> "none"]
    /\ (spc \in {"write", "done"} /\ srt_segments = <<>>) => file = <<(<<>>)>>

\* C21 witness: one of the four stages has returned on an empty list (the
\* writer with a file of an earlier run in place before it).
C21_Witness ==
    \/ gpc = "done" /\ words = <<>>
    \/ mpc = "done" /\ msegments = <<>>
    \/ tpc = "done" /\ tsegments = <<>> /\ outcome.kind = "returned"
    \/ spc = "done" /\ srt_segments = <<>> /\ file = <<(<<>>)>>

\* C22: translate_segments on the empty list returns the empty list, and has
\* neither called the collaborator nor slept.
C22_EmptyWithoutCall ==
    (tpc = "done" /\ tsegments = <<>>)
        => /\ outcome = [kind |-> "returned", value |-> <<>>, exc |-> "none"]
           /\ calls = <<>>
           /\ sleeps = <<>>

\* C22 witness: a return on the empty list, whatever batch_size and
\* max_retries, max_retries = 0 included.
C22_Witness ==
    /\ tpc = "done"
    /\ tsegments = <<>>
    /\ max_retries = 0
    /\ outcome.kind = "returned"

----------------------------------------------------------------------------
\* Recognition: SpeechRecognizer.transcribe_audio (Google) and the temporary
\* object it puts in Cloud Storage

\* Google Speech-to-Text has a 10MB limit for inline audio content
MAX_INLINE_SIZE == 10 * 1024 * 1024

\* parameter sync_threshold=60, in ms
sync_threshold == 60000

\* os.path.getsize(audio_path)
FileSizes == {1024, MAX_INLINE_SIZE - 1, MAX_INLINE_SIZE, MAX_INLINE_SIZE + 1,
              2 * MAX_INLINE_SIZE}

\* extractor.get_audio_duration(audio_path), ms
AudioDurations == {30000, 59999, 60000, 90000}

BucketNames == {None, <<"bucket">>}

\* f"gs://{self.gcs_bucket_name}/{blob_name}"
TempUri == <<"gs", "bucket", "audio_temp", "audio.wav">>

\* an object of the bucket that is not of this run
OtherUri == <<"gs", "bucket", "keep">>

ApiCall(name, ok) == [call |-> name, ok |-> ok]

TranscribeRaised == [kind |-> "raised", exc |-> "TranscriptionError"]

TranscribeInit ==
    /\ GroupIdle /\ ObjectIdle /\ MergeIdle /\ SrtIdle /\ TranslateIdle
    /\ FormatIdle /\ MainIdle /\ OwnIdle
    /\ file_size \in FileSizes
    /\ gcs_bucket_name \in BucketNames
    /\ audio_duration \in AudioDurations
    /\ gcs_uri = None
    /\ blobs \in {{}, {OtherUri}}
    /\ api_log = <<>>
    /\ transcribed = [kind |-> "none", exc |-> "none"]
    /\ apc = "start"

\* os.path.getsize or get_audio_duration raises: "except Exception as e:
\* raise TranscriptionError"
TranscribeMeasureRaises ==
    /\ apc = "start"
    /\ transcribed' = TranscribeRaised
    /\ apc' = "done"
    /\ UNCHANGED <<file_size, gcs_bucket_name, audio_duration, gcs_uri, blobs, api_log>>
    /\ UNCHANGED <<gvars, ovars, mvars, svars, tvars, fvars, pvars, hvars>>

\* "if file_size > self.MAX_INLINE_SIZE": _prepare_audio_via_gcs, which
\* raises at once without a bucket and else uploads; "else": the audio is
\* read inline and gcs_uri = None
TranscribePrepare ==
    /\ apc = "start"
    /\ IF file_size > MAX_INLINE_SIZE
       THEN IF gcs_bucket_name = None
            THEN /\ transcribed' = TranscribeRaised
                 /\ apc' = "done"
                 /\ UNCHANGED <<gcs_uri, blobs, api_log>>
            ELSE /\ api_log' = Append(api_log, ApiCall("upload", TRUE))
                 /\ blobs' = blobs \cup {TempUri}
                 /\ gcs_uri' = <<TempUri>>
                 /\ apc' = "recognize"
                 /\ UNCHANGED transcribed
       ELSE /\ gcs_uri' = None
            /\ apc' = "recognize"
            /\ UNCHANGED <<blobs, api_log, transcribed>>
    /\ UNCHANGED <<file_size, gcs_bucket_name, audio_duration>>
    /\ UNCHANGED <<gvars, ovars, mvars, svars, tvars, fvars, pvars, hvars>>

\* blob.upload_from_filename raises: "raise TranscriptionError(Failed to
\* upload ...)"
TranscribeUploadRaises ==
    /\ apc = "start"
    /\ file_size > MAX_INLINE_SIZE
    /\ gcs_bucket_name /= None
    /\ api_log' = Append(api_log, ApiCall("upload", FALSE))
    /\ transcribed' = TranscribeRaised
    /\ apc' = "done"
    /\ UNCHANGED <<file_size, gcs_bucket_name, audio_duration, gcs_uri, blobs>>
    /\ UNCHANGED <<gvars, ovars, mvars, svars, tvars, fvars, pvars, hvars>>

\* "if duration < sync_threshold and file_size <= self.MAX_INLINE_SIZE"
UsesSync == audio_duration < sync_threshold /\ file_size <= MAX_INLINE_SIZE

\* client.recognize, or client.long_running_recognize, returns
TranscribeRecognize ==
    /\ apc = "recognize"
    /\ IF UsesSync
       THEN /\ api_log' = Append(api_log, ApiCall("recognize", TRUE))
            /\ apc' = "cleanup"
       ELSE /\ api_log' = Append(api_log, ApiCall("long_running_recognize", TRUE))
            /\ apc' = "result"
    /\ UNCHANGED <<file_size, gcs_bucket_name, audio_duration, gcs_uri, blobs,
                   transcribed>>
    /\ UNCHANGED <<gvars, ovars, mvars, svars, tvars, fvars, pvars, hvars>>

\* client.recognize, or client.long_running_recognize, raises: "except
\* Exception as e: raise TranscriptionError"
TranscribeRecognizeRaises ==
    /\ apc = "recognize"
    /\ api_log' = Append(api_log,
                         ApiCall(IF UsesSync THEN "recognize"
                                 ELSE "long_running_recognize", FALSE))
    /\ transcribed' = TranscribeRaised
    /\ apc' = "done"
    /\ UNCHANGED <<file_size, gcs_bucket_name, audio_duration, gcs_uri, blobs>>
    /\ UNCHANGED <<gvars, ovars, mvars, svars, tvars, fvars, pvars, hvars>>

\* operation.result(timeout=7200) returns the response
TranscribeResult ==
    /\ apc = "result"
    /\ api_log' = Append(api_log, ApiCall("result", TRUE))
    /\ apc' = "cleanup"
    /\ UNCHANGED <<file_size, gcs_bucket_name, audio_duration, gcs_uri, blobs,
                   transcribed>>
    /\ UNCHANGED <<gvars, ovars, mvars, svars, tvars, fvars, pvars, hvars>>

\* operation.result(timeout=7200) raises, the recognition having failed or
\* the two hours being over
TranscribeResultRaises ==
    /\ apc = "result"
    /\ api_log' = Append(api_log, ApiCall("result", FALSE))
    /\ transcribed' = TranscribeRaised
    /\ apc' = "done"
    /\ UNCHANGED <<file_size, gcs_bucket_name, audio_duration, gcs_uri, blobs>>
    /\ UNCHANGED <<gvars, ovars, mvars, svars, tvars, fvars, pvars, hvars>>

\* "if gcs_uri: self._cleanup_gcs_file(gcs_uri)": blob.delete(), whose
\* failure is logged and goes no further
TranscribeCleanup ==
    /\ apc = "cleanup"
    /\ IF gcs_uri /= None
       THEN \E ok \in BOOLEAN :
               /\ api_log' = Append(api_log, ApiCall("delete", ok))
               /\ blobs' = IF ok THEN blobs \ {gcs_uri[1]} ELSE blobs
       ELSE UNCHANGED <<api_log, blobs>>
    /\ apc' = "return"
    /\ UNCHANGED <<file_size, gcs_bucket_name, audio_duration, gcs_uri, transcribed>>
    /\ UNCHANGED <<gvars, ovars, mvars, svars, tvars, fvars, pvars, hvars>>

\* "return segments"
TranscribeReturn ==
    /\ apc = "return"
    /\ transcribed' = [kind |-> "returned", exc |-> "none"]
    /\ apc' = "done"
    /\ UNCHANGED <<file_size, gcs_bucket_name, audio_duration, gcs_uri, blobs, api_log>>
    /\ UNCHANGED <<gvars, ovars, mvars, svars, tvars, fvars, pvars, hvars>>

TranscribeNext ==
    \/ TranscribeMeasureRaises
    \/ TranscribePrepare
    \/ TranscribeUploadRaises
    \/ TranscribeRecognize
    \/ TranscribeRecognizeRaises
    \/ TranscribeResult
    \/ TranscribeResultRaises
    \/ TranscribeCleanup
    \/ TranscribeReturn

SpecTranscribe == TranscribeInit /\ [][TranscribeNext]_vars

\* the calls of that name and outcome made so far
CallsMade(name, ok) == {k \in 1..Len(api_log) : api_log[k] = ApiCall(name, ok)}

\* C30: when transcribe_audio has returned or raised after an upload that
\* went through, _cleanup_gcs_file has been called on the object (the delete
\* call was made); and for a file over the inline limit with no bucket
\* configured it has raised TranscriptionError with no upload and no
\* recognition call made.
C30_TempObjectCleaned ==
    /\ (transcribed.kind /= "none" /\ CallsMade("upload", TRUE) /= {})
         => (CallsMade("delete", TRUE) \cup CallsMade("delete", FALSE)) /= {}
    /\ (apc = "done" /\ file_size > MAX_INLINE_SIZE /\ gcs_bucket_name = None)
         => transcribed = TranscribeRaised /\ api_log = <<>>

----------------------------------------------------------------------------
\* The components together: each behaviour runs one of them

Init == GroupInit \/ MergeInit \/ SrtInit \/ TranslateInit

Next == GroupNext \/ MergeNext \/ SrtNext \/ TranslateNext

Spec == Init /\ [][Next]_vars

====
